---- MODULE Spec2Model ----
(***************************************************************************)
(* A model of src/main.py: the news bot that polls a fixed registry of     *)
(* RSS feeds, keeps the entries of the last day, translates the foreign    *)
(* titles, renders a Slack Block Kit payload and posts it to a webhook.    *)
(*                                                                         *)
(* Time is counted in minutes.  A feed document is a sequence of entries;  *)
(* an entry is a record                                                    *)
(*   link   its position in the document (entry.link, distinct per entry)  *)
(*   stamp  "ok"      published_parsed is present and a valid date         *)
(*          "absent"  the entry has no published_parsed attribute          *)
(*          "invalid" published_parsed is present but datetime(...) of it  *)
(*                    raises (a None value, an out-of-range field)         *)
(*   pub    the published time when stamp = "ok" (0 otherwise)             *)
(*   titled whether entry.title exists (attribute access raises if not)    *)
(***************************************************************************)
EXTENDS Integers, Sequences, FiniteSets, TLC

VARIABLES
    SLACK_WEBHOOK_URL,  \* TRUE iff the environment variable is set (line 23)
    DEEPL_API_KEY,      \* TRUE iff the environment variable is set (line 24)
    translator,         \* TRUE iff deepl.Translator(...) was constructed (27-31)
    pc,                 \* position of the run
    now,                \* datetime.now() read at the start of a fetch (line 50)
    tick,               \* minutes that pass between two reads of the clock
    feedNo,             \* index of the next feed of the dict being iterated
    entries,            \* feed.entries, when get_latest_news is run on its own
    recent,             \* recent_entries at line 58, when it is run on its own
    latest,             \* value returned by the last get_latest_news call
    all_news,           \* the list accumulated by main (line 129)
    slack_payload,      \* blocks of the payload built at line 174
    fetched,            \* feeds handed to feedparser.parse, in call order
    returned,           \* what get_latest_news returned for each fetched feed
    translations,       \* number of calls of the translation provider (line 39)
    posts,              \* outcomes of the requests.post calls (line 117)
    fetch_error,        \* what the last get_latest_news call caught at line 59:
                        \* "none", "parse" (line 49) or "entry" (line 54)
    raised              \* TRUE iff an exception propagated out of main

vars == <<SLACK_WEBHOOK_URL, DEEPL_API_KEY, translator, pc, now, tick, feedNo,
          entries, recent, latest, all_news, slack_payload, fetched, returned,
          translations, posts, fetch_error, raised>>

----------------------------------------------------------------------------
(* Program constants *)

\* timedelta(days=1), in minutes
Day == 1440

\* recent_entries[:2]
PerFeedCap == 2

\* if len(blocks) > 45: break
BlockCutoff == 45

\* Slack's documented ceiling of blocks per message
PlatformBlockLimit == 50

KOREAN_FEEDS == <<"GeekNews", "Musinsa", "Naver", "Kakao", "Toss", "NHNToast">>

FOREIGN_FEEDS == <<"HackerNews">>

(* Bounds of the model *)

\* longest feed document
MaxEntries == 3

\* longest item list handed to the message builder on its own
MaxItems == 25

\* largest number of minutes between two reads of the clock
MaxTick == 1

----------------------------------------------------------------------------
(* Sequences *)

Take(s, n) == SubSeq(s, 1, IF Len(s) < n THEN Len(s) ELSE n)

IsPrefix(s, t) == Len(s) <= Len(t) /\ s = SubSeq(t, 1, Len(s))

RECURSIVE Flatten(_)
Flatten(ss) == IF ss = <<>> THEN <<>> ELSE Head(ss) \o Flatten(Tail(ss))

----------------------------------------------------------------------------
(* Feed documents *)

\* the clock at the start of the run
T0 == 2 * Day

\* published times around the cutoff T0 - Day
PubTimes == {T0 - Day - 1, T0 - Day, T0 - Day + 1, T0 - 1, T0}

Stamps == [stamp : {"ok"}, pub : PubTimes] \cup [stamp : {"absent", "invalid"}, pub : {0}]

EntryAt(i, s, t) == [link |-> i, stamp |-> s.stamp, pub |-> s.pub, titled |-> t]

DocsOf(stamps, titles) ==
    UNION { { [i \in 1..n |-> EntryAt(i, ss[i], tt[i])] :
                ss \in [1..n -> stamps], tt \in [1..n -> titles] } :
            n \in 0..MaxEntries }

\* every document the filter is examined on
FilterDocs == DocsOf(Stamps, {TRUE})

\* the documents the feeds of a run serve
\* and, as feeds list their newest entry first, ordered by published time
\* and with at most one entry that lacks a title
RunDocs ==
    { d \in DocsOf([stamp : {"ok"}, pub : {T0 - Day - 1, T0}]
                     \cup [stamp : {"invalid"}, pub : {0}], BOOLEAN) :
        /\ \A i \in 1..Len(d) : \A j \in i..Len(d) : d[i].pub >= d[j].pub
        /\ Cardinality({i \in 1..Len(d) : ~d[i].titled}) <= 1 }

----------------------------------------------------------------------------
(* get_latest_news, lines 46-61 *)

\* datetime.now() - timedelta(days=1), line 50
Yesterday == now - Day

\* the clock as read while entry i is examined: it never runs backwards
ClockAt(i) == now + i * tick

published_time_epoch(entry, i) ==
    IF entry.stamp = "ok" THEN entry.pub ELSE 0

\* line 54: the entry's own time, or the current time when it has none
published_time(entry, i) ==
    IF entry.stamp = "ok" THEN entry.pub ELSE ClockAt(i)

RetainedStrict(published, yesterday) == published > yesterday

\* line 55
Retained(published, yesterday) == published >= yesterday

\* lines 52-56 from entry i on, when no entry raises
RECURSIVE RecentFrom(_, _)
RecentFrom(doc, i) ==
    IF i > Len(doc) THEN <<>>
    ELSE (IF Retained(published_time(doc[i], i), Yesterday) THEN <<doc[i]>> ELSE <<>>)
         \o RecentFrom(doc, i + 1)

recent_entries(doc) == RecentFrom(doc, 1)

\* the exception of the try block: feedparser.parse failed (parsed = FALSE),
\* or datetime(...) of an entry did
Caught(parsed, doc) ==
    IF ~parsed THEN "parse"
    ELSE IF \E i \in 1..Len(doc) : doc[i].stamp = "invalid" THEN "entry"
    ELSE "none"

Raises(parsed, doc) == Caught(parsed, doc) # "none"

TruncateLast(recent_entries_) ==
    SubSeq(recent_entries_, Len(recent_entries_) - Len(Take(recent_entries_, PerFeedCap)) + 1,
           Len(recent_entries_))

\* line 58
Truncate(recent_entries_) == Take(recent_entries_, PerFeedCap)

\* the entries before the first one whose date raises
ValidPrefix(doc) ==
    SubSeq(doc, 1, Cardinality({i \in 1..Len(doc) :
                       \A j \in 1..i : doc[j].stamp # "invalid"}))

get_latest_news_partial(parsed, doc) ==
    IF ~parsed THEN <<>> ELSE Truncate(recent_entries(ValidPrefix(doc)))

get_latest_news(parsed, doc) ==
    IF Raises(parsed, doc) THEN <<>> ELSE Truncate(recent_entries(doc))

----------------------------------------------------------------------------
(* translate_text, lines 33-43 *)

TitleOf(entry) == [kind |-> "title", of |-> entry.link]

EmptyText == [kind |-> "empty", of |-> 0]

\* the provider is called only past the guard of line 35
CallsProvider(text) == translator /\ text # EmptyText

translate_text(text, providerOk) ==
    IF ~CallsProvider(text) THEN [kind |-> "unavailable", of |-> 0]
    ELSE IF providerOk THEN [kind |-> "korean", of |-> text.of]
    ELSE [kind |-> "error", of |-> text.of]

----------------------------------------------------------------------------
(* create_slack_message, lines 64-108 *)

Header(n) == [type |-> "header", card |-> <<>>, count |-> n]

Divider == [type |-> "divider", card |-> <<>>, count |-> 0]

Section(item) == [type |-> "section", card |-> <<item>>, count |-> 0]

NoNewsSection == [type |-> "section", card |-> <<>>, count |-> 0]

StopNever(blocks) == FALSE

\* line 105, evaluated after the card was appended
Stop(blocks) == Len(blocks) > BlockCutoff

\* lines 90-106 from item i on
RECURSIVE AddCards(_, _, _)
AddCards(blocks, news_items, i) ==
    IF i > Len(news_items) THEN blocks
    ELSE LET carded == blocks \o <<Divider, Section(news_items[i])>>
         IN  IF Stop(carded) THEN carded ELSE AddCards(carded, news_items, i + 1)

create_slack_message(news_items) ==
    IF news_items = <<>> THEN <<Header(0), NoNewsSection>>
    ELSE AddCards(<<Header(Len(news_items))>>, news_items, 1)

\* the items a payload shows, in block order
RECURSIVE Rendered(_)
Rendered(blocks) ==
    IF blocks = <<>> THEN <<>> ELSE Head(blocks).card \o Rendered(Tail(blocks))

\* blocks of the rendering with no cut-off: the header, two blocks per item
FullRendering(news_items) == 1 + 2 * Len(news_items)

----------------------------------------------------------------------------
(* The run: main, lines 124-175 *)

Feeds == KOREAN_FEEDS \o FOREIGN_FEEDS

Item(site, text, entry) == [site |-> site, text |-> text, url |-> entry.link]

\* entries of a returned list mapped before entry.title raises AttributeError
Mappable(got) ==
    IF \A i \in 1..Len(got) : got[i].titled THEN Len(got)
    ELSE (CHOOSE i \in 1..Len(got) :
            ~got[i].titled /\ \A j \in 1..(i - 1) : got[j].titled) - 1

KoreanItemsReversed(name, got) ==
    [i \in 1..Mappable(got) |->
        Item(name, TitleOf(got[Mappable(got) + 1 - i]), got[Mappable(got) + 1 - i])]

\* lines 134-156: the items of one native feed
KoreanItems(name, got) ==
    [i \in 1..Mappable(got) |-> Item(name, TitleOf(got[i]), got[i])]

\* lines 161-169: the items of one foreign feed; oks[i] tells whether the
\* provider answers the i-th call
ForeignItems(name, got, oks) ==
    [i \in 1..Mappable(got) |-> Item(name, translate_text(TitleOf(got[i]), oks[i]), got[i])]

Idle ==
    /\ entries = <<>>
    /\ recent = <<>>
    /\ latest = <<>>
    /\ all_news = <<>>
    /\ slack_payload = <<>>
    /\ fetched = <<>>
    /\ returned = <<>>
    /\ translations = 0
    /\ posts = <<>>
    /\ fetch_error = "none"
    /\ raised = FALSE
    /\ feedNo = 1

\* module level, lines 23-31: without a key deepl.Translator raises and the
\* translator is None; with a key the constructor makes no request and succeeds.
\* The feeds of a run serve no entry without a timestamp, so the clock of the
\* run is read once (now) and tick plays no part.
Init ==
    /\ SLACK_WEBHOOK_URL \in BOOLEAN
    /\ DEEPL_API_KEY \in BOOLEAN
    /\ translator = DEEPL_API_KEY
    /\ now = T0
    /\ tick = 0
    /\ pc = "validate"
    /\ Idle

ConfigMissingBoth == ~SLACK_WEBHOOK_URL /\ ~DEEPL_API_KEY

\* line 125
ConfigMissing == ~SLACK_WEBHOOK_URL \/ ~DEEPL_API_KEY

\* lines 125-129
Validate ==
    /\ pc = "validate"
    /\ pc' = IF ConfigMissing THEN "exit" ELSE "korean"
    /\ UNCHANGED <<SLACK_WEBHOOK_URL, DEEPL_API_KEY, translator, now, tick, feedNo,
                   entries, recent, latest, all_news, slack_payload, fetched, returned,
                   translations, posts, fetch_error, raised>>

\* one iteration of the loop of lines 132-156
CollectKorean ==
    /\ pc = "korean"
    /\ \E parsed \in BOOLEAN, doc \in RunDocs :
         LET name == KOREAN_FEEDS[feedNo]
             got == get_latest_news(parsed, doc)
         IN  /\ fetched' = Append(fetched, name)
             /\ returned' = Append(returned, got)
             /\ latest' = got
             /\ fetch_error' = Caught(parsed, doc)
             /\ all_news' = all_news \o KoreanItems(name, got)
             /\ raised' = (Mappable(got) < Len(got))
             /\ pc' = IF raised' THEN "exit"
                      ELSE IF feedNo = Len(KOREAN_FEEDS) THEN "foreign" ELSE "korean"
             /\ feedNo' = IF raised' THEN feedNo
                          ELSE IF feedNo = Len(KOREAN_FEEDS) THEN 1 ELSE feedNo + 1
    /\ UNCHANGED <<SLACK_WEBHOOK_URL, DEEPL_API_KEY, translator, now, tick,
                   entries, recent, slack_payload, translations, posts>>

\* one iteration of the loop of lines 159-169
CollectForeign ==
    /\ pc = "foreign"
    /\ \E parsed \in BOOLEAN, doc \in RunDocs :
        \E oks \in [1..Mappable(get_latest_news(parsed, doc)) -> BOOLEAN] :
         LET name == FOREIGN_FEEDS[feedNo]
             got == get_latest_news(parsed, doc)
             new == ForeignItems(name, got, oks)
         IN  /\ fetched' = Append(fetched, name)
             /\ returned' = Append(returned, got)
             /\ latest' = got
             /\ fetch_error' = Caught(parsed, doc)
             /\ all_news' = all_news \o new
             /\ translations' = translations
                  + Cardinality({i \in 1..Len(new) : CallsProvider(TitleOf(got[i]))})
             /\ raised' = (Mappable(got) < Len(got))
             /\ pc' = IF raised' THEN "exit"
                      ELSE IF feedNo = Len(FOREIGN_FEEDS) THEN "build" ELSE "foreign"
             /\ feedNo' = IF raised' \/ feedNo = Len(FOREIGN_FEEDS) THEN feedNo
                          ELSE feedNo + 1
    /\ UNCHANGED <<SLACK_WEBHOOK_URL, DEEPL_API_KEY, translator, now, tick,
                   entries, recent, slack_payload, posts>>

\* lines 171-174
Build ==
    /\ pc = "build"
    /\ slack_payload' = create_slack_message(all_news)
    /\ pc' = "send"
    /\ UNCHANGED <<SLACK_WEBHOOK_URL, DEEPL_API_KEY, translator, now, tick, feedNo,
                   entries, recent, latest, all_news, fetched, returned, translations,
                   posts, fetch_error, raised>>

PostOutcomes == {"2xx", "non-2xx", "transport error"}

\* send_to_slack, lines 111-121 (called at line 175)
Send ==
    /\ pc = "send"
    /\ \E outcome \in PostOutcomes :
         posts' = IF SLACK_WEBHOOK_URL THEN Append(posts, outcome) ELSE posts
    /\ pc' = "exit"
    /\ UNCHANGED <<SLACK_WEBHOOK_URL, DEEPL_API_KEY, translator, now, tick, feedNo,
                   entries, recent, latest, all_news, slack_payload, fetched, returned,
                   translations, fetch_error, raised>>

Next == Validate \/ CollectKorean \/ CollectForeign \/ Build \/ Send

Spec == Init /\ [][Next]_vars

----------------------------------------------------------------------------
(* get_latest_news on its own, over every document *)

NowTimes == {T0, T0 + 1}

InitFilter ==
    /\ SLACK_WEBHOOK_URL = TRUE
    /\ DEEPL_API_KEY = TRUE
    /\ translator = TRUE
    /\ now \in NowTimes
    /\ tick \in 0..MaxTick
    /\ pc = "filter"
    /\ entries \in FilterDocs
    /\ recent = <<>>
    /\ latest = <<>>
    /\ all_news = <<>>
    /\ slack_payload = <<>>
    /\ fetched = <<>>
    /\ returned = <<>>
    /\ translations = 0
    /\ posts = <<>>
    /\ fetch_error = "none"
    /\ raised = FALSE
    /\ feedNo = 1

\* one call of get_latest_news, lines 46-61
FilterFeed ==
    /\ pc = "filter"
    /\ \E parsed \in BOOLEAN :
         /\ fetch_error' = Caught(parsed, entries)
         /\ recent' = IF Raises(parsed, entries) THEN <<>> ELSE recent_entries(entries)
         /\ latest' = get_latest_news(parsed, entries)
    /\ pc' = "filtered"
    /\ UNCHANGED <<SLACK_WEBHOOK_URL, DEEPL_API_KEY, translator, now, tick, feedNo,
                   entries, all_news, slack_payload, fetched, returned,
                   translations, posts, raised>>

SpecFilter == InitFilter /\ [][FilterFeed]_vars

----------------------------------------------------------------------------
(* create_slack_message and send_to_slack on their own, over every item list *)

ItemList(n) ==
    [i \in 1..n |-> [site |-> Feeds[((i - 1) % Len(Feeds)) + 1],
                     text |-> [kind |-> "title", of |-> i],
                     url |-> i]]

InitBuild ==
    /\ SLACK_WEBHOOK_URL \in BOOLEAN
    /\ DEEPL_API_KEY = TRUE
    /\ translator = TRUE
    /\ now = T0
    /\ tick = 0
    /\ pc = "build"
    /\ entries = <<>>
    /\ recent = <<>>
    /\ latest = <<>>
    /\ all_news \in {ItemList(n) : n \in 0..MaxItems}
    /\ slack_payload = <<>>
    /\ fetched = <<>>
    /\ returned = <<>>
    /\ translations = 0
    /\ posts = <<>>
    /\ fetch_error = "none"
    /\ raised = FALSE
    /\ feedNo = 1

NextBuild == Build \/ Send

SpecBuild == InitBuild /\ [][NextBuild]_vars

----------------------------------------------------------------------------
(* The run together with the two functions on their own *)

InitAll == Init \/ InitFilter \/ InitBuild

NextAll == Next \/ FilterFeed

SpecAll == InitAll /\ [][NextAll]_vars

----------------------------------------------------------------------------
(* Properties *)

Range(s) == {s[i] : i \in 1..Len(s)}

\* get_latest_news was run on its own and returned from line 58
Filtered == pc = "filtered" /\ fetch_error = "none"

\* create_slack_message has returned
Built == pc \in {"send", "exit"} /\ slack_payload # <<>>

ValidConfig == SLACK_WEBHOOK_URL /\ DEEPL_API_KEY

\* C1, as the specification words it: an item list whose full rendering has more
\* than 45 blocks gives a payload of at most 45 blocks, showing a leading
\* prefix of the list.
C1_Original ==
    (Built /\ FullRendering(all_news) > BlockCutoff) =>
        /\ Len(slack_payload) <= BlockCutoff
        /\ IsPrefix(Rendered(slack_payload), all_news)

\* C2, as the specification words it: an entry with a valid timestamp is
\* excluded when published 24 hours or more before now, and retained when
\* published less than 24 hours before now.
C2_Original ==
    Filtered =>
        \A i \in 1..Len(entries) :
            entries[i].stamp = "ok" =>
                /\ (now - entries[i].pub >= Day => entries[i] \notin Range(recent))
                /\ (now - entries[i].pub < Day => entries[i] \in Range(recent))

\* C2, amended: an entry with a valid timestamp is excluded when published
\* more than 24 hours before now, and retained when published 24 hours or less
\* before now (an entry published exactly 24h00m ago is retained).
C2_RecencyWindow ==
    Filtered =>
        \A i \in 1..Len(entries) :
            entries[i].stamp = "ok" =>
                /\ (now - entries[i].pub > Day => entries[i] \notin Range(recent))
                /\ (now - entries[i].pub <= Day => entries[i] \in Range(recent))

\* a document with entries one minute outside, exactly on and one minute inside
\* the cutoff has been filtered
C2_Witness ==
    /\ Filtered
    /\ \E i, j, k \in 1..Len(entries) :
        /\ entries[i].stamp = "ok" /\ now - entries[i].pub = Day + 1
        /\ entries[i] \notin Range(recent)
        /\ entries[j].stamp = "ok" /\ now - entries[j].pub = Day
        /\ entries[j] \in Range(recent)
        /\ entries[k].stamp = "ok" /\ now - entries[k].pub = Day - 1
        /\ entries[k] \in Range(recent)

\* C3, as the specification words it: whatever sub-steps fail (fetches failing
\* or returning malformed entries, translations raising, the POST failing), no
\* exception propagates out of main.
C3_Original == ~raised

\* C4: when the webhook URL or the translation key is missing, the run ends at
\* the validation step: no feed is fetched, the translation provider is never
\* called, no POST is issued and no item is collected.
C4_NoNetworkWithoutConfig ==
    ~ValidConfig =>
        /\ pc \in {"validate", "exit"}
        /\ fetched = <<>>
        /\ translations = 0
        /\ posts = <<>>
        /\ all_news = <<>>
        /\ slack_payload = <<>>
        /\ ~raised

\* a run without the webhook URL, but with the key, has ended
C4_Witness == pc = "exit" /\ ~SLACK_WEBHOOK_URL /\ DEEPL_API_KEY

\* C5: a fetch that fails (feedparser.parse raises, or an entry's date does)
\* returns the empty sequence and leaves the run exactly where a fetch of an
\* empty feed leaves it: the items collected so far are kept, nothing is added,
\* nothing propagates, and the run goes on to the next feed (or to the build
\* step after the last one).
C5_FailureIsolated ==
    [][(Len(fetched') = Len(fetched) + 1 /\ fetch_error' # "none") =>
          /\ latest' = <<>>
          /\ returned' = Append(returned, <<>>)
          /\ all_news' = all_news
          /\ translations' = translations
          /\ ~raised'
          /\ pc' = (IF pc = "foreign" THEN "build"
                    ELSE IF feedNo = Len(KOREAN_FEEDS) THEN "foreign" ELSE "korean")
          /\ fetched' = SubSeq(Feeds, 1, Len(fetched) + 1)]_vars

\* the second native feed has failed on an entry, the two items of the first
\* one are kept and the run goes on with the third
C5_Witness ==
    /\ pc = "korean"
    /\ fetch_error = "entry"
    /\ Len(fetched) = 2
    /\ feedNo = 3
    /\ Len(all_news) = 2

\* C6: an entry without a timestamp always passes the recency test: when the
\* call returns from line 58 the entry is in the retained sequence, next to
\* every timestamped entry of the window, in document order; and a call that
\* ends in the except branch because of an entry does so because of an entry
\* with an invalid date, never because of a missing one.
C6_MissingTimestampRetained ==
    pc = "filtered" =>
        /\ fetch_error = "entry" => \E i \in 1..Len(entries) : entries[i].stamp = "invalid"
        /\ fetch_error = "none" =>
            /\ \A i \in 1..Len(entries) :
                /\ entries[i].stamp = "absent" => entries[i] \in Range(recent)
                /\ (entries[i].stamp = "ok" /\ entries[i].pub >= now - Day)
                      => entries[i] \in Range(recent)
            /\ \A k \in 1..Len(recent) :
                /\ recent[k] = entries[recent[k].link]
                /\ \A m \in 1..(k - 1) : recent[m].link < recent[k].link

\* with the clock moving, an entry without a timestamp and a timestamped entry
\* of the window, in this order and after an old entry, are both retained
C6_Witness ==
    /\ Filtered
    /\ tick > 0
    /\ \E h, i, j \in 1..Len(entries) :
        /\ h < i /\ i < j
        /\ entries[h].stamp = "ok" /\ entries[h] \notin Range(recent)
        /\ entries[i].stamp = "absent" /\ entries[i] \in Range(recent)
        /\ entries[j].stamp = "ok" /\ entries[j] \in Range(recent)

\* C7: get_latest_news returns at most 2 entries, namely the first min(2, n) of
\* the n retained entries in the feed's own order (nothing when the fetch
\* failed); so no feed contributes more than 2 items to a run.
C7_PerFeedCap ==
    /\ pc = "filtered" =>
        /\ Len(latest) <= PerFeedCap
        /\ fetch_error # "none" => latest = <<>>
        /\ fetch_error = "none" =>
            /\ Len(latest) = (IF Len(recent) < PerFeedCap THEN Len(recent) ELSE PerFeedCap)
            /\ \A k \in 1..Len(latest) : latest[k] = recent[k]
            /\ \A k \in 1..Len(recent) : \A m \in 1..(k - 1) : recent[m].link < recent[k].link
    /\ \A k \in 1..Len(returned) : Len(returned[k]) <= PerFeedCap
    /\ \A k \in 1..Len(fetched) :
        Cardinality({i \in 1..Len(all_news) : all_news[i].site = fetched[k]}) <= PerFeedCap

\* three entries were retained and the first two of them returned
C7_Witness ==
    /\ Filtered
    /\ Len(recent) = PerFeedCap + 1
    /\ latest = SubSeq(recent, 1, PerFeedCap)

\* site and url of the items the feeds fetched so far should have contributed
ExpectedNews ==
    Flatten([k \in 1..Len(returned) |->
                [i \in 1..Len(returned[k]) |-> <<fetched[k], returned[k][i].link>>]])

\* C8: the item list handed to create_slack_message is the concatenation, in
\* registry order, of every source's filtered entries in entry order, native
\* sources before foreign ones, native items showing the original title and
\* foreign items the translator's answer; two native sources returning 2
\* entries each and nothing else give exactly 4 items.
C8_SourceThenEntryOrder ==
    Built =>
        /\ fetched = Feeds
        /\ Len(returned) = Len(Feeds)
        /\ [i \in 1..Len(all_news) |-> <<all_news[i].site, all_news[i].url>>] = ExpectedNews
        /\ \A i \in 1..Len(all_news) : \A j \in i..Len(all_news) :
              all_news[i].site \in Range(FOREIGN_FEEDS) => all_news[j].site \in Range(FOREIGN_FEEDS)
        /\ \A i \in 1..Len(all_news) :
              IF all_news[i].site \in Range(KOREAN_FEEDS)
              THEN all_news[i].text = [kind |-> "title", of |-> all_news[i].url]
              ELSE all_news[i].text \in {[kind |-> "korean", of |-> all_news[i].url],
                                         [kind |-> "error", of |-> all_news[i].url]}
        /\ (/\ Len(returned[1]) = PerFeedCap
            /\ Len(returned[2]) = PerFeedCap
            /\ \A k \in 3..Len(returned) : returned[k] = <<>>) => Len(all_news) = 4

\* the first two native sources returned two entries each, the others none
C8_Witness ==
    /\ pc = "send"
    /\ Len(all_news) = 4
    /\ [i \in 1..4 |-> <<all_news[i].site, all_news[i].url>>]
         = << <<"GeekNews", 1>>, <<"GeekNews", 2>>, <<"Musinsa", 1>>, <<"Musinsa", 2>> >>

\* C9, as the specification words it: a run with valid configuration attempts
\* exactly one POST, after every feed was collected and the payload built, also
\* when no item was collected; no run attempts more than one.
C9_Original ==
    /\ Len(posts) <= 1
    /\ posts # <<>> => (fetched = Feeds /\ slack_payload = create_slack_message(all_news))
    /\ (pc = "exit" /\ ValidConfig) => Len(posts) = 1

\* C10: whatever the item list, the payload has at most 50 blocks; and the
\* payload of a run that fetched all 7 feeds stays within the builder's cut-off
\* and shows every collected item.
C10_PayloadWithinLimits ==
    Built =>
        /\ Len(slack_payload) <= PlatformBlockLimit
        /\ fetched = Feeds =>
            /\ Len(slack_payload) <= BlockCutoff
            /\ Rendered(slack_payload) = all_news

\* every feed of a run returned 2 entries and the payload shows all 14 items
C10_Witness ==
    /\ Built
    /\ fetched = Feeds
    /\ Len(all_news) = PerFeedCap * Len(Feeds)
    /\ Len(slack_payload) = FullRendering(all_news)

====
